---- MODULE Spec2Model ----
(***************************************************************************)
(* A model of gaussian_splatting_St_v14.py: the Streamlit script that      *)
(* loads an uploaded PLY file (load_ply_file), shows its statistics        *)
(* (display_point_cloud_info), builds the Plotly scene                     *)
(* (create_gaussian_splatting_visualization) and renders it.               *)
(*                                                                         *)
(* Numbers.  The script computes with floating point numbers; the model    *)
(* computes with exact rationals [n |-> numerator, d |-> denominator],     *)
(* d > 0, in lowest terms.  Every value the model feeds in (integers,      *)
(* halves, tenths, thousandths) and every result the claims look at is     *)
(* computed by the same sequence of operations as in the source.           *)
(***************************************************************************)
EXTENDS Integers, Sequences, FiniteSets, TLC

(***************************************************************************)
(* Rational arithmetic (the float operators +, -, *, / and <, and int()).  *)
(***************************************************************************)
Abs(i) == IF i < 0 THEN -i ELSE i

RECURSIVE GCD(_, _)
GCD(a, b) == IF b = 0 THEN a ELSE GCD(b, a % b)

Norm(n, d) ==
    LET g == GCD(Abs(n), d)
    IN  IF n = 0 THEN [n |-> 0, d |-> 1] ELSE [n |-> n \div g, d |-> d \div g]

R(i) == [n |-> i, d |-> 1]

Q(n, d) == Norm(n, d)

\* A point, a vector or a color with integer coordinates.
P(x, y, z) == <<R(x), R(y), R(z)>>

LCM(a, b) == (a \div GCD(a, b)) * b

Add(a, b) ==
    LET l == LCM(a.d, b.d)
    IN  Norm(a.n * (l \div a.d) + b.n * (l \div b.d), l)

Neg(a) == [n |-> -a.n, d |-> a.d]

Sub(a, b) == Add(a, Neg(b))

Mul(a, b) ==
    LET g1 == GCD(Abs(a.n), b.d)
        g2 == GCD(Abs(b.n), a.d)
    IN  Norm((a.n \div g1) * (b.n \div g2), (a.d \div g2) * (b.d \div g1))

Div(a, b) ==
    IF b.n > 0 THEN Mul(a, [n |-> b.d, d |-> b.n])
               ELSE Mul(a, [n |-> -b.d, d |-> -b.n])

Lt(a, b) == a.n * b.d < b.n * a.d

\* Python's int() on a float: truncation towards zero.
PyInt(a) == IF a.n >= 0 THEN a.n \div a.d ELSE -((-a.n) \div a.d)

(***************************************************************************)
(* numpy helpers.                                                          *)
(***************************************************************************)
\* Python's None where a record, an array or a figure could stand.
None == [none |-> TRUE]

\* No exception (raised, exc); a local name not bound yet (tmp_filename).
NoException == "no exception"

Unbound == "unbound"

\* points[:, a]: column a (1 = x, 2 = y, 3 = z) of an (N, 3) array.
Column(points, a) == [k \in 1..Len(points) |-> points[k][a]]

\* The least and the greatest element of a non-empty set of numbers.
Least(S) == CHOOSE m \in S : \A v \in S : ~Lt(v, m)

Greatest(S) == CHOOSE m \in S : \A v \in S : ~Lt(m, v)

\* ndarray.min() / ndarray.max() of a non-empty one-dimensional array: the
\* reduction runs over blocks of 64 elements, then over the blocks' results.
Blocks(a) == 0..((Len(a) - 1) \div 64)

Block(a, b) ==
    {a[k] : k \in (64 * b + 1)..
                  (IF 64 * b + 64 < Len(a) THEN 64 * b + 64 ELSE Len(a))}

ArrMin(a) == Least({Least(Block(a, b)) : b \in Blocks(a)})

ArrMax(a) == Greatest({Greatest(Block(a, b)) : b \in Blocks(a)})

\* Python's max(a, b, c): the first of the largest arguments.
Max3(a, b, c) ==
    LET ab == IF Lt(a, b) THEN b ELSE a
    IN  IF Lt(ab, c) THEN c ELSE ab

(***************************************************************************)
(* np.sin and np.cos on the sample grid.  An angle is given as the         *)
(* rational t with angle = t * pi, 0 <= t <= 5/2.  The values are those of *)
(* Bhaskara's rational approximation sin(t pi) = 16 t(1-t) / (5 - 4 t(1-t)*)
(* on [0, 1], rounded to two decimals: exact at 0, pi/2, pi, 3pi/2 and   *)
(* within 0.002 elsewhere.  No claim depends on the digits.                *)
(***************************************************************************)
RoundTo(v, den) == Norm((2 * v.n * den + v.d) \div (2 * v.d), den)

SinHalfTurn(t) ==
    LET p == t.n * (t.d - t.n)
    IN  RoundTo(Norm(16 * p, 5 * t.d * t.d - 4 * p), 100)

RECURSIVE NpSin(_)
NpSin(t) ==
    IF Lt(R(2), t) \/ t = R(2) THEN NpSin(Sub(t, R(2)))
    ELSE IF Lt(R(1), t) THEN Neg(SinHalfTurn(Sub(t, R(1))))
    ELSE SinHalfTurn(t)

NpCos(t) == NpSin(Add(t, Q(1, 2)))

\* np.linspace(0, stop * pi, num)[k], k = 0..num-1, in units of pi.
Linspace(stop, num, k) == Q(stop * k, num - 1)

(***************************************************************************)
(* create_gaussian_splatting_visualization (lines 68-134).                 *)
(***************************************************************************)
\* round(r*255) for int(r*255).
ChannelRounded(c) == PyInt(Add(Mul(c, R(255)), Q(1, 2)))

\* int(r*255) for one color channel (line 74).
Channel(c) == PyInt(Mul(c, R(255)))

\* f'rgb({int(r*255)},{int(g*255)},{int(b*255)})' (line 74).
RGBString(color) ==
    "rgb(" \o ToString(Channel(color[1])) \o "," \o ToString(Channel(color[2]))
           \o "," \o ToString(Channel(color[3])) \o ")"

color_hex(colors) == [k \in 1..Len(colors) |-> RGBString(colors[k])]

\* splat_scale wired into the marker's size.
MarkerScaled(colors, point_size, splat_scale) ==
    [size |-> Mul(R(point_size), splat_scale), color |-> color_hex(colors),
     opacity |-> Q(8, 10), line_width |-> 0]

\* marker=dict(size=point_size, color=color_hex, opacity=0.8, line=dict(width=0))
Marker(colors, point_size, splat_scale) ==
    [size |-> point_size, color |-> color_hex(colors), opacity |-> Q(8, 10),
     line_width |-> 0]

\* go.Scatter3d(...) (lines 78-92).
Scatter3d(points, colors, point_size, splat_scale) ==
    [x |-> Column(points, 1), y |-> Column(points, 2), z |-> Column(points, 3),
     mode |-> "markers", marker |-> Marker(colors, point_size, splat_scale),
     hoverinfo |-> "none"]

\* [points[:, a].min(), points[:, a].max()] (lines 96-98), N >= 1.
AxisRange(points, a) == <<ArrMin(Column(points, a)), ArrMax(Column(points, a))>>

\* center (lines 100-104).
Center(x_range, y_range, z_range) ==
    << Div(Add(x_range[1], x_range[2]), R(2)),
       Div(Add(y_range[1], y_range[2]), R(2)),
       Div(Add(z_range[1], z_range[2]), R(2)) >>

\* The span of the first axis taken for the largest.
MaxRangeFirstAxis(x_range, y_range, z_range) == Sub(x_range[2], x_range[1])

\* max_range (lines 106-110).
MaxRange(x_range, y_range, z_range) ==
    Max3(Sub(x_range[2], x_range[1]),
         Sub(y_range[2], y_range[1]),
         Sub(z_range[2], z_range[1]))

\* The factor 2 for 2.5.
CameraDistTwice(max_range) == Mul(max_range, R(2))

\* camera_dist = max_range * 2.5 (line 112).
CameraDist(max_range) == Mul(max_range, Q(5, 2))

\* camera=dict(up=..., center=..., eye=...) (lines 121-125).
Camera(camera_dist) ==
    [up     |-> <<R(0), R(0), R(1)>>,
     center |-> <<R(0), R(0), R(0)>>,
     eye    |-> <<camera_dist, camera_dist, Div(camera_dist, R(2))>>]

AxisHidden ==
    [visible |-> FALSE, showticklabels |-> FALSE, showgrid |-> FALSE,
     zeroline |-> FALSE, showbackground |-> FALSE]

\* fig.update_layout(...) (lines 115-132).
Layout(camera_dist) ==
    [xaxis |-> AxisHidden, yaxis |-> AxisHidden, zaxis |-> AxisHidden,
     aspectmode |-> "data", camera |-> Camera(camera_dist),
     bgcolor |-> "rgba(0,0,0,0)", margin |-> [l |-> 0, r |-> 0, b |-> 0, t |-> 0],
     scene_dragmode |-> "orbit", height |-> 800, width |-> 900]

\* A builder that guards the empty record and frames it like a single point.
BuildGuarded(data, point_size, splat_scale) ==
    [raised |-> NoException, at |-> 134,
     fig |-> [data |-> Scatter3d(data.points, data.colors, point_size,
                                 splat_scale),
              layout |-> Layout(R(0))],
     center |-> P(0, 0, 0), max_range |-> R(0), camera_dist |-> R(0)]

\* The call as a whole.  The result is what the call leaves behind: whether
\* it raised (and where), the figure returned, and the locals the camera
\* placement computed.  points[:, 0].min() on an empty array raises
\* ValueError (line 96); nothing else in the function can raise on a record
\* of N points and N colors.
Build(data, point_size, splat_scale) ==
    IF Len(data.points) = 0
    THEN [raised |-> "ValueError", at |-> 96, fig |-> None,
          center |-> None, max_range |-> None, camera_dist |-> None]
    ELSE LET x_range == AxisRange(data.points, 1)
             y_range == AxisRange(data.points, 2)
             z_range == AxisRange(data.points, 3)
             max_range == MaxRange(x_range, y_range, z_range)
             camera_dist == CameraDist(max_range)
         IN  [raised |-> NoException, at |-> 134,
              fig |-> [data |-> Scatter3d(data.points, data.colors,
                                          point_size, splat_scale),
                       layout |-> Layout(camera_dist)],
              center |-> Center(x_range, y_range, z_range),
              max_range |-> max_range,
              camera_dist |-> camera_dist]

(***************************************************************************)
(* The sample point cloud of the branch without an upload (lines 201-223). *)
(***************************************************************************)
ThetaSteps == 100
PhiSteps == 50

\* theta, phi = np.meshgrid(theta, phi); x.flatten() (row-major): element k
\* (from 0) has theta index k % 100 and phi index k \div 100.
SampleTheta(k) == Linspace(2, ThetaSteps, k % ThetaSteps)

SamplePhi(k) == Linspace(1, PhiSteps, k \div ThetaSteps)

\* r = 1; x, y, z (lines 205-208).
SamplePoint(k) ==
    << Mul(Mul(R(1), NpSin(SamplePhi(k))), NpCos(SampleTheta(k))),
       Mul(Mul(R(1), NpSin(SamplePhi(k))), NpSin(SampleTheta(k))),
       Mul(R(1), NpCos(SamplePhi(k))) >>

\* np.column_stack((x.flatten(), y.flatten(), z.flatten())) (line 210).
SamplePoints == [k \in 1..(ThetaSteps * PhiSteps) |-> SamplePoint(k - 1)]

\* The colors taken from the positions as they are.
SampleColorsRaw(points) == points

\* colors[:, a] = (points[:, a] + 1) / 2 (lines 213-216).
SampleColors(points) ==
    [k \in 1..Len(points) |->
        << Div(Add(points[k][1], R(1)), R(2)),
           Div(Add(points[k][2], R(1)), R(2)),
           Div(Add(points[k][3], R(1)), R(2)) >>]

\* sample_data (lines 218-223).
SampleData ==
    LET points == SamplePoints
    IN  [points |-> points, colors |-> SampleColors(points),
         normals |-> None, pcd |-> None]

(***************************************************************************)
(* Inputs.  An uploaded file is identified by what Open3D's decoder makes  *)
(* of its bytes: a point cloud (points, and colors and normals that are    *)
(* either absent or one per point), or nothing it can read.                *)
(***************************************************************************)
MaxPoints == 2

PointSet == {P(0, 0, 0), P(10, 10, 10), P(2, 3, 4), P(-4, 1, 0)}

ColorSet == {<<R(1), Q(1, 2), R(0)>>, <<Q(999, 1000), Q(1, 5), Q(1, 2)>>}

SeqsUpTo(S, n) == UNION {[1..m -> S] : m \in 0..n}

Normals(n) == [k \in 1..n |-> P(0, 0, 1)]

PcdSet ==
    UNION { { [points |-> ps, colors |-> cs, normals |-> ns] :
                cs \in {<<>>} \cup [1..Len(ps) -> ColorSet],
                ns \in {<<>>, Normals(Len(ps))} } :
            ps \in SeqsUpTo(PointSet, MaxPoints) }

EmptyPcd == [points |-> <<>>, colors |-> <<>>, normals |-> <<>>]

Files == {[kind |-> "corrupt"]} \cup {[kind |-> "ply", pcd |-> p] : p \in PcdSet}

\* Values the two sliders can hand back (lines 170-171): their defaults and
\* the upper ends of their ranges.
PointSizes == {5, 20}

SplatScales == {R(1), R(3)}

(***************************************************************************)
(* load_ply_file (lines 32-66).                                            *)
(***************************************************************************)
\* The disk after the with block of lines 34-36: NamedTemporaryFile is
\* opened with delete=False, so leaving the block (normally, or because
\* write raised) closes the file and keeps it.
TempCreated(disk, name) == disk \cup {name}

\* os.unlink(tmp_filename) in the finally clause (lines 64-66).
Unlinked(disk, name) == disk \ {name}

\* o3d.io.read_point_cloud(tmp_filename) (line 40): the outcomes the decoder
\* can produce for a file.  For bytes it cannot read it either raises or
\* returns an empty cloud.
Raises == [raises |-> "RuntimeError"]

ReadPointCloud(file) ==
    IF file.kind = "ply" THEN {file.pcd} ELSE {Raises, EmptyPcd}

\* pcd.has_colors() / pcd.has_normals() (lines 46, 53).
HasColors(pcd) == Len(pcd.points) > 0 /\ Len(pcd.colors) = Len(pcd.points)

HasNormals(pcd) == Len(pcd.points) > 0 /\ Len(pcd.normals) = Len(pcd.points)

\* np.ones without the factor 0.5.
WhiteColors(n) == [k \in 1..n |-> <<R(1), R(1), R(1)>>]

\* np.ones((len(points), 3)) * 0.5 (line 50).
GrayColors(n) ==
    [k \in 1..n |-> <<Mul(R(1), Q(1, 2)), Mul(R(1), Q(1, 2)), Mul(R(1), Q(1, 2))>>]

\* colors (lines 46-50).
LoaderColors(pcd) ==
    IF HasColors(pcd) THEN pcd.colors ELSE GrayColors(Len(pcd.points))

\* np.asarray(pcd.normals) as an object: the script never indexes it, it only
\* tests it against None (line 149).
NdArray(rows) == [array |-> rows]

\* normals (lines 53-56).
LoaderNormals(pcd) == IF HasNormals(pcd) THEN NdArray(pcd.normals) ELSE None

\* The record returned (lines 43-63).
LoaderRecord(pcd) ==
    [points |-> pcd.points, colors |-> LoaderColors(pcd),
     normals |-> LoaderNormals(pcd), pcd |-> pcd]

(***************************************************************************)
(* One run of the script (a Streamlit render cycle).                       *)
(***************************************************************************)
VARIABLES
    pc,             \* where the script is
    uploaded_file,  \* what st.sidebar.file_uploader returned (line 156)
    disk,           \* the temporary files that exist
    tmp_filename,   \* load_ply_file's tmp_filename, None before line 36
    data,           \* data (line 163) or sample_data (line 218)
    settings,       \* point_size and splat_scale (lines 170-171, 225)
    build,          \* the last call of the builder: its outcome and locals
    exc,            \* the exception caught at line 192, if any
    ui,             \* the elements the run has put on the page, in order
    calls,          \* the calls and returns of the run, in order
    t_pc,           \* the direct calls (SpecCalls): position,
    t_file,         \*   the file loaded,
    t_load,         \*   the outcome of load_ply_file,
    t_first,        \*   the first call of the builder,
    t_second        \*   the second call of the builder

script_vars ==
    <<pc, uploaded_file, disk, tmp_filename, data, settings,
      build, exc, ui, calls>>

call_vars == <<t_pc, t_file, t_load, t_first, t_second>>

vars == <<script_vars, call_vars>>

\* fig, the figure the builder returned (lines 174, 225).
fig == IF build = None THEN None ELSE build.fig

TempName == "tmp.ply"

\* Lines 8-30 and 155-156: the page head and the sidebar's upload control.
PageHead ==
    <<"title", "markdown:style", "markdown:intro", "sidebar.header:Controls",
      "sidebar.file_uploader">>

Init ==
    /\ pc = "start"
    /\ uploaded_file \in {None} \cup Files
    /\ disk = {}
    /\ tmp_filename = Unbound
    /\ data = None
    /\ settings = None
    /\ build = None
    /\ exc = NoException
    /\ ui = <<>>
    /\ calls = <<>>
    /\ t_pc = "off"
    /\ t_file = None
    /\ t_load = None
    /\ t_first = None
    /\ t_second = None

\* Lines 8-30, 155-158: the head of the page, then the branch on the upload.
Start ==
    /\ pc = "start"
    /\ ui' = PageHead
    /\ pc' = IF uploaded_file # None THEN "load" ELSE "sample"
    /\ UNCHANGED <<uploaded_file, disk, tmp_filename, data, settings, build,
                   exc, calls, call_vars>>

\* Lines 163, 34-36: load_ply_file is called, creates the temporary file and
\* writes the bytes to it.  The write can fail (a full disk): the exception
\* leaves the function from the with block, before the try of line 38.
LoaderWrite ==
    /\ pc = "load"
    /\ calls' = Append(calls, "load_ply_file")
    /\ disk' = TempCreated(disk, TempName)
    /\ \E written \in BOOLEAN :
         IF written
         THEN /\ tmp_filename' = TempName
              /\ pc' = "decode"
              /\ exc' = exc
         ELSE /\ tmp_filename' = tmp_filename
              /\ pc' = "except"
              /\ exc' = "OSError"
    /\ UNCHANGED <<uploaded_file, data, settings, build, ui,
                   call_vars>>

\* Lines 38-66: the decoder reads the temporary file, the record is built and
\* returned, and the finally clause unlinks tmp_filename on both ways out.
LoaderDecode ==
    /\ pc = "decode"
    /\ disk' = Unlinked(disk, tmp_filename)
    /\ \E pcd \in ReadPointCloud(uploaded_file) :
         IF pcd = Raises
         THEN /\ exc' = Raises.raises
              /\ pc' = "except"
              /\ UNCHANGED <<data, calls>>
         ELSE /\ data' = LoaderRecord(pcd)
              /\ calls' = Append(calls, "load_ply_file:return")
              /\ pc' = "info"
              /\ exc' = exc
    /\ UNCHANGED <<uploaded_file, tmp_filename, settings, build,
                   ui, call_vars>>

\* display_point_cloud_info (lines 136-152): what it writes to the sidebar.
\* points.min(axis=0) raises ValueError on an empty array (line 143), after
\* the first three elements are on the page.
InfoHead ==
    <<"sidebar.subheader:Point Cloud Information",
      "sidebar.write:Number of points", "sidebar.write:Bounding Box:">>

InfoBox(record) ==
    <<"sidebar.write:X", "sidebar.write:Y", "sidebar.write:Z",
      IF record.normals # None THEN "sidebar.write:Normals: Available"
                                ELSE "sidebar.write:Normals: Not available">>

\* Line 166.
DisplayInfo ==
    /\ pc = "info"
    /\ calls' = Append(calls, "display_point_cloud_info")
    /\ IF Len(data.points) = 0
       THEN /\ ui' = ui \o InfoHead
            /\ exc' = "ValueError"
            /\ pc' = "except"
       ELSE /\ ui' = ui \o InfoHead \o InfoBox(data)
            /\ exc' = exc
            /\ pc' = "sliders"
    /\ UNCHANGED <<uploaded_file, disk, tmp_filename, data, settings, build,
                   call_vars>>

SliderElements ==
    <<"sidebar.subheader:Visualization Settings", "sidebar.slider:Point Size",
      "sidebar.slider:Gaussian Splat Scale">>

\* Lines 169-171: the two sliders hand back the user's settings.
Sliders ==
    /\ pc = "sliders"
    /\ ui' = ui \o SliderElements
    /\ settings' \in [point_size : PointSizes, splat_scale : SplatScales]
    /\ pc' = "build"
    /\ UNCHANGED <<uploaded_file, disk, tmp_filename, data, build, exc, calls,
                   call_vars>>

\* Line 174.
BuildFigure ==
    /\ pc = "build"
    /\ calls' = Append(calls, "create_gaussian_splatting_visualization")
    /\ build' = Build(data, settings.point_size, settings.splat_scale)
    /\ IF build'.raised # NoException
       THEN /\ exc' = build'.raised
            /\ pc' = "except"
       ELSE /\ exc' = exc
            /\ pc' = "chart"
    /\ UNCHANGED <<uploaded_file, disk, tmp_filename, data, settings, ui,
                   call_vars>>

\* Line 177.
Chart ==
    /\ pc = "chart"
    /\ calls' = Append(calls, "plotly_chart")
    /\ ui' = Append(ui, "plotly_chart")
    /\ pc' = "advanced"
    /\ UNCHANGED <<uploaded_file, disk, tmp_filename, data, settings, build,
                   exc, call_vars>>

\* Lines 180-181: the button is True in the run its click started.
Advanced ==
    /\ pc = "advanced"
    /\ ui' = ui \o <<"sidebar.subheader:Advanced Options",
                     "sidebar.button:Download Processed Point Cloud">>
    /\ \E clicked \in BOOLEAN : pc' = IF clicked THEN "download" ELSE "footer"
    /\ UNCHANGED <<uploaded_file, disk, tmp_filename, data, settings, build,
                   exc, calls, call_vars>>

\* Lines 183-190: o3d.io.write_point_cloud is handed a BytesIO where Open3D
\* takes a file name; whether it raises is the library's.
Download ==
    /\ pc = "download"
    /\ calls' = Append(calls, "write_point_cloud")
    /\ \E wrote \in BOOLEAN :
         IF wrote
         THEN /\ ui' = Append(ui, "sidebar.download_button:Download PLY")
              /\ exc' = exc
              /\ pc' = "footer"
         ELSE /\ ui' = ui
              /\ exc' = "TypeError"
              /\ pc' = "except"
    /\ UNCHANGED <<uploaded_file, disk, tmp_filename, data, settings, build,
                   call_vars>>

\* A handler that shows the message and loads the file again.
ExceptRetry ==
    /\ pc = "except"
    /\ ui' = Append(ui, "error")
    /\ pc' = IF \A i \in 1..Len(ui) : ui[i] # "error" THEN "load" ELSE "footer"
    /\ UNCHANGED <<uploaded_file, disk, tmp_filename, data, settings, build,
                   exc, calls, call_vars>>

\* A handler that shows the message and lets the branch go on with its next
\* step.
ExceptResume ==
    /\ pc = "except"
    /\ ui' = Append(ui, "error")
    /\ pc' = IF exc = "ValueError" THEN "sliders" ELSE "footer"
    /\ UNCHANGED <<uploaded_file, disk, tmp_filename, data, settings, build,
                   exc, calls, call_vars>>

\* Lines 192-193: the handler of the upload branch.
Except ==
    /\ pc = "except"
    /\ ui' = Append(ui, "error")
    /\ pc' = "footer"
    /\ UNCHANGED <<uploaded_file, disk, tmp_filename, data, settings, build,
                   exc, calls, call_vars>>

\* Lines 196-223: the branch without an upload builds sample_data.
Sample ==
    /\ pc = "sample"
    /\ ui' = ui \o <<"info", "subheader:Sample Visualization">>
    /\ data' = SampleData
    /\ pc' = "sample_build"
    /\ UNCHANGED <<uploaded_file, disk, tmp_filename, settings,
                   build, exc, calls, call_vars>>

\* Line 225: outside any try; an exception would end the run.
SampleBuild ==
    /\ pc = "sample_build"
    /\ calls' = Append(calls, "create_gaussian_splatting_visualization")
    /\ settings' = [point_size |-> 5, splat_scale |-> R(1)]
    /\ build' = Build(data, 5, R(1))
    /\ pc' = IF build'.raised # NoException THEN "crashed" ELSE "sample_chart"
    /\ UNCHANGED <<uploaded_file, disk, tmp_filename, data, exc, ui,
                   call_vars>>

\* Line 226.
SampleChart ==
    /\ pc = "sample_chart"
    /\ calls' = Append(calls, "plotly_chart")
    /\ ui' = Append(ui, "plotly_chart")
    /\ pc' = "footer"
    /\ UNCHANGED <<uploaded_file, disk, tmp_filename, data, settings, build,
                   exc, call_vars>>

\* Lines 228-253.
Footer ==
    /\ pc = "footer"
    /\ ui' = ui \o <<"markdown:---", "markdown:Instructions",
                     "expander:About Gaussian Splatting">>
    /\ pc' = "done"
    /\ UNCHANGED <<uploaded_file, disk, tmp_filename, data, settings, build,
                   exc, calls, call_vars>>

Next ==
    \/ Start
    \/ LoaderWrite
    \/ LoaderDecode
    \/ DisplayInfo
    \/ Sliders
    \/ BuildFigure
    \/ Chart
    \/ Advanced
    \/ Download
    \/ Except
    \/ Sample
    \/ SampleBuild
    \/ SampleChart
    \/ Footer

Spec == Init /\ [][Next]_vars

(***************************************************************************)
(* The two functions called directly, as a test would call them:          *)
(*     data = load_ply_file(file_bytes)                                    *)
(*     create_gaussian_splatting_visualization(data)                       *)
(*     create_gaussian_splatting_visualization(other, point_size, scale)   *)
(* the first call with the defaults of line 68 (point_size=5,              *)
(* splat_scale=1.0), the second with any arguments, other being data again *)
(* or the record of another file.                                          *)
(***************************************************************************)
\* load_ply_file as one call (lines 32-66): what it raised, what it
\* returned, and the disk it leaves.
LoadPlyFile(before, written, pcd) ==
    IF ~written
    THEN [raised |-> "OSError", data |-> None,
          disk |-> TempCreated(before, TempName)]
    ELSE IF pcd = Raises
    THEN [raised |-> Raises.raises, data |-> None,
          disk |-> Unlinked(TempCreated(before, TempName), TempName)]
    ELSE [raised |-> NoException, data |-> LoaderRecord(pcd),
          disk |-> Unlinked(TempCreated(before, TempName), TempName)]

\* One call of the builder: its arguments and its outcome.
Call(record, ps, scale) ==
    [data |-> record, point_size |-> ps, splat_scale |-> scale,
     out |-> Build(record, ps, scale)]

\* The other files of the second call: a cube's two corners, one point.
OtherClouds ==
    { [points |-> <<P(0, 0, 0), P(10, 10, 10)>>, colors |-> <<>>,
       normals |-> <<>>],
      [points |-> <<P(2, 3, 4)>>, colors |-> <<>>, normals |-> <<>>] }

InitCalls ==
    /\ pc = "off"
    /\ uploaded_file = None
    /\ disk = {}
    /\ tmp_filename = Unbound
    /\ data = None
    /\ settings = None
    /\ build = None
    /\ exc = NoException
    /\ ui = <<>>
    /\ calls = <<>>
    /\ t_pc = "load"
    /\ t_file \in Files
    /\ t_load = None
    /\ t_first = None
    /\ t_second = None

CallLoad ==
    /\ t_pc = "load"
    /\ \E written \in BOOLEAN, pcd \in ReadPointCloud(t_file) :
         t_load' = LoadPlyFile({}, written, pcd)
    /\ t_pc' = IF t_load'.raised = NoException THEN "first" ELSE "done"
    /\ UNCHANGED <<script_vars, t_file, t_first, t_second>>

CallFirst ==
    /\ t_pc = "first"
    /\ t_first' = Call(t_load.data, 5, R(1))
    /\ t_pc' = "second"
    /\ UNCHANGED <<script_vars, t_file, t_load, t_second>>

CallSecond ==
    /\ t_pc = "second"
    /\ \E record \in {t_load.data} \cup {LoaderRecord(c) : c \in OtherClouds},
          ps \in PointSizes, scale \in SplatScales :
         t_second' = Call(record, ps, scale)
    /\ t_pc' = "done"
    /\ UNCHANGED <<script_vars, t_file, t_load, t_first>>

NextCalls == CallLoad \/ CallFirst \/ CallSecond

SpecCalls == InitCalls /\ [][NextCalls]_vars

(***************************************************************************)
(* Helpers of the claims.                                                  *)
(***************************************************************************)
Count(seq, e) == Cardinality({i \in 1..Len(seq) : seq[i] = e})

Has(seq, e) == \E i \in 1..Len(seq) : seq[i] = e

IsPrefix(a, b) == Len(a) <= Len(b) /\ \A i \in 1..Len(a) : a[i] = b[i]

Uploaded == uploaded_file # None

\* load_ply_file has been called and the call has ended (returned or raised).
LoaderEnded == Has(calls, "load_ply_file") /\ pc # "decode"

LoaderFailed == LoaderEnded /\ ~Has(calls, "load_ply_file:return")

\* What the steps of the upload branch put on the page.
StatisticsElements == {"sidebar.subheader:Point Cloud Information",
    "sidebar.write:Number of points", "sidebar.write:Bounding Box:",
    "sidebar.write:X", "sidebar.write:Y", "sidebar.write:Z",
    "sidebar.write:Normals: Available", "sidebar.write:Normals: Not available"}

SliderSet == {SliderElements[i] : i \in 1..Len(SliderElements)}

PipelineElements ==
    StatisticsElements \cup SliderSet \cup {"plotly_chart",
        "sidebar.subheader:Advanced Options",
        "sidebar.button:Download Processed Point Cloud",
        "sidebar.download_button:Download PLY"}

\* The cloud the decoder made of the uploaded file, once the loader has
\* returned (for bytes it cannot read: the empty cloud).
Decoded == IF uploaded_file.kind = "ply" THEN uploaded_file.pcd ELSE EmptyPcd

LoaderReturned == Has(calls, "load_ply_file:return")

\* The calls of a run with an upload in which every step succeeds.
PipelineOrder ==
    <<"load_ply_file", "load_ply_file:return", "display_point_cloud_info",
      "create_gaussian_splatting_visualization", "plotly_chart",
      "write_point_cloud">>

\* floor(c * 255): the integer f with f <= c * 255 < f + 1.
Floor255(c) ==
    CHOOSE f \in 0..255 : f * c.d <= c.n * 255 /\ c.n * 255 < (f + 1) * c.d

\* c in [0, 1].
InUnit(c) == c.n >= 0 /\ c.n <= c.d

\* The builder's last call in the script returned a figure.
BuiltFigure == build # None /\ build.raised = NoException

(***************************************************************************)
(* C1.  When a call of load_ply_file has ended, on whatever way out        *)
(* (return, decoder failure, failure of the write to the temporary file),  *)
(* the temporary file it created does not exist.                           *)
(* Fails: a write that raises leaves the with block of lines 34-36 before  *)
(* the try of line 38, and the file (delete=False) stays on the disk.      *)
(***************************************************************************)
C1_TempFileGone == LoaderEnded => disk = {}

(***************************************************************************)
(* C2 as stated.  When a step of the upload branch has raised, the page    *)
(* shows exactly one error message and nothing the branch's steps put on   *)
(* it: no statistics, no sliders, no scene.                                *)
(***************************************************************************)
C2_NoPartialUI ==
    (Uploaded /\ exc # NoException /\ pc \in {"footer", "done"}) =>
        /\ Count(ui, "error") = 1
        /\ \A i \in 1..Len(ui) : ui[i] \notin PipelineElements

(***************************************************************************)
(* C2 as amended.  When a step of the upload branch has raised, the page   *)
(* shows exactly one error message (and none when no step raised), no      *)
(* step of the branch puts anything on the page after the message, and     *)
(* what the steps before the failure put on the page stays on it, in the   *)
(* order of the steps: a run whose download step raised shows the          *)
(* statistics, the sliders and the scene together with the error.          *)
(***************************************************************************)
C2_ErrorOnceAndHalt ==
    /\ (exc # NoException /\ pc \in {"footer", "done"}) => Count(ui, "error") = 1
    /\ (exc = NoException \/ pc = "except") => Count(ui, "error") = 0
    /\ \A i, j \in 1..Len(ui) :
         (ui[i] = "error" /\ i < j) => ui[j] \notin PipelineElements
    /\ (Uploaded /\ exc = "TypeError" /\ pc = "done") =>
         /\ \A e \in {InfoHead[i] : i \in 1..Len(InfoHead)} : Has(ui, e)
         /\ \A e \in SliderSet : Has(ui, e)
         /\ Has(ui, "plotly_chart")
    /\ (Uploaded /\ exc = "ValueError" /\ pc = "done") =>
         ui = PageHead \o InfoHead \o <<"error">> \o
              <<"markdown:---", "markdown:Instructions",
                "expander:About Gaussian Splatting">>

C2_ErrorBesideScene ==
    /\ pc = "done"
    /\ Count(ui, "error") = 1
    /\ Has(ui, "plotly_chart")
    /\ Has(ui, "sidebar.slider:Point Size")
    /\ Has(ui, "sidebar.write:X")

(***************************************************************************)
(* The bounding box of a non-empty array of points, as the claims define   *)
(* it: the least and the greatest coordinate on each axis.                 *)
(***************************************************************************)
Coordinates(points, a) == {points[k][a] : k \in 1..Len(points)}

BoxMin(points, a) ==
    CHOOSE m \in Coordinates(points, a) :
        \A v \in Coordinates(points, a) : ~Lt(v, m)

BoxMax(points, a) ==
    CHOOSE m \in Coordinates(points, a) :
        \A v \in Coordinates(points, a) : ~Lt(m, v)

Span(points, a) == Sub(BoxMax(points, a), BoxMin(points, a))

\* The largest of the three spans.
LargestSpan(points) ==
    CHOOSE m \in {Span(points, a) : a \in 1..3} :
        \A a \in 1..3 : ~Lt(m, Span(points, a))

Square(v) == Mul(v, v)

\* The squares of the bounding box's diagonal and of the distance of the
\* camera's eye from the point it looks at.
Diagonal2(points) ==
    Add(Add(Square(Span(points, 1)), Square(Span(points, 2))),
        Square(Span(points, 3)))

EyeDistance2(camera) ==
    Add(Add(Square(Sub(camera.eye[1], camera.center[1])),
            Square(Sub(camera.eye[2], camera.center[2]))),
        Square(Sub(camera.eye[3], camera.center[3])))

\* The calls of the builder made so far that had N >= 1 points.
BuilderCalls == {c \in {t_first, t_second} : c # None}

FramedCalls == {c \in BuilderCalls : Len(c.data.points) >= 1}

(***************************************************************************)
(* C3.  For a record of N >= 1 points the builder returns, center is the   *)
(* midpoint of [min, max] on each axis, max_range the largest of the three *)
(* spans, camera_dist = max_range * 2.5, and the camera has                *)
(* eye = (camera_dist, camera_dist, camera_dist/2), up = (0,0,1) and       *)
(* looks at (0,0,0) whatever center is.  A cloud spanning (0,0,0) to       *)
(* (10,10,10) gives center (5,5,5), max_range 10, camera_dist 25 and eye   *)
(* (25,25,12.5); a cloud of one point gives max_range 0 and camera_dist 0. *)
(***************************************************************************)
C3_CameraPlacement ==
    \A c \in FramedCalls :
        LET points == c.data.points
            camera == c.out.fig.layout.camera
        IN  /\ c.out.raised = NoException
            /\ \A a \in 1..3 :
                 Mul(c.out.center[a], R(2)) =
                     Add(BoxMin(points, a), BoxMax(points, a))
            /\ c.out.max_range = LargestSpan(points)
            /\ Mul(c.out.camera_dist, R(2)) = Mul(c.out.max_range, R(5))
            /\ camera.eye[1] = c.out.camera_dist
            /\ camera.eye[2] = c.out.camera_dist
            /\ Mul(camera.eye[3], R(2)) = c.out.camera_dist
            /\ camera.up = P(0, 0, 1)
            /\ camera.center = P(0, 0, 0)
            /\ (/\ \A a \in 1..3 : BoxMin(points, a) = R(0)
                /\ \A a \in 1..3 : BoxMax(points, a) = R(10)) =>
                   /\ c.out.center = P(5, 5, 5)
                   /\ c.out.max_range = R(10)
                   /\ c.out.camera_dist = R(25)
                   /\ camera.eye = <<R(25), R(25), Q(25, 2)>>
            /\ Len(points) = 1 =>
                   /\ c.out.max_range = R(0)
                   /\ c.out.camera_dist = R(0)

\* Both of the claim's clouds have been built: the cube, and a single point
\* off the origin.
C3_CubeAndPointBuilt ==
    /\ t_first # None /\ t_second # None
    /\ t_first.data.points = <<P(0, 0, 0), P(10, 10, 10)>>
    /\ t_first.out.fig.layout.camera.eye = <<R(25), R(25), Q(25, 2)>>
    /\ t_second.data.points = <<P(2, 3, 4)>>
    /\ t_second.out.raised = NoException
    /\ t_second.out.center = P(2, 3, 4)

(***************************************************************************)
(* C4 as stated.  The distance of the eye from the point the camera looks  *)
(* at is proportional to the diagonal of the bounding box: the ratio       *)
(* eye-distance / diagonal is the same for any two clouds with a non-zero  *)
(* diagonal.  (Compared as squares.)                                       *)
(***************************************************************************)
C4_ProportionalToDiagonal ==
    \A c1, c2 \in FramedCalls :
        (/\ Diagonal2(c1.data.points) # R(0)
         /\ Diagonal2(c2.data.points) # R(0)) =>
            Mul(EyeDistance2(c1.out.fig.layout.camera),
                Diagonal2(c2.data.points))
            = Mul(EyeDistance2(c2.out.fig.layout.camera),
                  Diagonal2(c1.data.points))

(***************************************************************************)
(* C4 as amended.  The distance of the eye from the point the camera looks *)
(* at is proportional to the largest axis span of the bounding box, not to *)
(* its diagonal: eye-distance = 3.75 * largest span for every cloud of     *)
(* N >= 1 points, so the ratio eye-distance / largest span is the same for *)
(* any two clouds with a non-zero span.  (Compared as squares:             *)
(* 16 * distance^2 = 225 * span^2.)                                        *)
(***************************************************************************)
C4_ProportionalToLargestSpan ==
    /\ \A c \in FramedCalls :
         Mul(EyeDistance2(c.out.fig.layout.camera), R(16))
         = Mul(Square(LargestSpan(c.data.points)), R(225))
    /\ \A c1, c2 \in FramedCalls :
         Mul(EyeDistance2(c1.out.fig.layout.camera),
             Square(LargestSpan(c2.data.points)))
         = Mul(EyeDistance2(c2.out.fig.layout.camera),
               Square(LargestSpan(c1.data.points)))

\* Two clouds of different shape have been built: their diagonals are not
\* in the ratio of their largest spans.
C4_TwoShapesBuilt ==
    /\ t_first # None /\ t_second # None
    /\ Len(t_first.data.points) >= 1 /\ Len(t_second.data.points) >= 1
    /\ LargestSpan(t_first.data.points) # R(0)
    /\ LargestSpan(t_second.data.points) # R(0)
    /\ Mul(Diagonal2(t_first.data.points),
           Square(LargestSpan(t_second.data.points)))
       # Mul(Diagonal2(t_second.data.points),
             Square(LargestSpan(t_first.data.points)))

(***************************************************************************)
(* C5.  The record load_ply_file returns has as many colors as points;     *)
(* every color is (0.5, 0.5, 0.5) when the decoded cloud has no colors and *)
(* the colors are the decoded ones when it has; normals is None exactly    *)
(* when the decoded cloud has no normals.                                  *)
(***************************************************************************)
C5_LoaderRecord ==
    LoaderReturned =>
        /\ data.points = Decoded.points
        /\ Len(data.colors) = Len(data.points)
        /\ Decoded.colors = <<>> =>
             \A k \in 1..Len(data.colors) :
                 data.colors[k] = <<Q(1, 2), Q(1, 2), Q(1, 2)>>
        /\ Decoded.colors # <<>> => data.colors = Decoded.colors
        /\ (data.normals = None) <=> (Decoded.normals = <<>>)
        /\ Decoded.normals # <<>> => data.normals = NdArray(Decoded.normals)

\* The loader has returned the record of a cloud of two points without
\* colors and without normals.
C5_GrayRecordReturned ==
    /\ LoaderReturned
    /\ Len(data.points) = 2
    /\ Decoded.colors = <<>>
    /\ Decoded.normals = <<>>
    /\ Len(data.colors) = 2

(***************************************************************************)
(* C6.  The figure the builder returns depends on the record and on        *)
(* point_size only: two calls with the same record and the same point_size *)
(* return the same figure (and the same outcome) whatever their            *)
(* splat_scale, the second call being unaffected by the first.             *)
(***************************************************************************)
C6_SplatScaleInert ==
    (/\ t_first # None /\ t_second # None
     /\ t_second.data = t_first.data
     /\ t_second.point_size = t_first.point_size) =>
        /\ t_second.out.fig = t_first.out.fig
        /\ t_second.out = t_first.out

\* The same record built twice with the same point_size and two values of
\* splat_scale.
C6_BuiltWithTwoScales ==
    /\ t_first # None /\ t_second # None
    /\ t_second.data = t_first.data
    /\ t_second.point_size = t_first.point_size
    /\ t_second.splat_scale # t_first.splat_scale
    /\ t_first.out.raised = NoException
    /\ Len(t_first.data.points) = 2

(***************************************************************************)
(* C7.  In a run with an uploaded file the steps come in order, each at    *)
(* most once: the loader, the statistics, the builder (only after the      *)
(* loader has returned a record), the rendering (only after the builder    *)
(* has returned a figure).  When the loader fails, the failure is shown    *)
(* once, the loader is not called again and neither the builder nor the    *)
(* rendering runs.                                                         *)
(***************************************************************************)
C7_StrictOrder ==
    Uploaded =>
        /\ IsPrefix(calls, PipelineOrder)
        /\ pc \notin {"start", "load"} => Count(calls, "load_ply_file") = 1
        /\ Has(calls, "create_gaussian_splatting_visualization") =>
             /\ LoaderReturned
             /\ data # None
        /\ Has(calls, "plotly_chart") =>
             /\ build # None
             /\ build.raised = NoException
             /\ fig # None
             /\ Has(ui, "plotly_chart")
        /\ ~Has(calls, "plotly_chart") => ~Has(ui, "plotly_chart")
        /\ LoaderFailed =>
             /\ calls = <<"load_ply_file">>
             /\ build = None
             /\ ~Has(ui, "plotly_chart")
             /\ pc \in {"except", "footer", "done"}
             /\ pc \in {"footer", "done"} => Count(ui, "error") = 1

\* A run whose loader failed in the decoder has ended.
C7_FailedLoadEnded ==
    /\ Uploaded
    /\ pc = "done"
    /\ exc = "RuntimeError"
    /\ Count(ui, "error") = 1

(***************************************************************************)
(* C8.  When the decoded cloud is empty the loader does not fail and       *)
(* returns a record with no points and no colors; the builder called on    *)
(* such a record raises at the bounding box (line 96) and returns no       *)
(* figure.                                                                 *)
(***************************************************************************)
C8_EmptyCloud ==
    /\ (/\ t_load # None
        /\ t_file.kind = "ply"
        /\ t_file.pcd.points = <<>>
        /\ t_load.raised # "OSError") =>
           /\ t_load.raised = NoException
           /\ t_load.data.points = <<>>
           /\ t_load.data.colors = <<>>
    /\ (/\ t_load # None
        /\ t_load.raised = NoException
        /\ t_load.data.pcd.points = <<>>) =>
           /\ t_load.data.points = <<>>
           /\ t_load.data.colors = <<>>
    /\ \A c \in BuilderCalls :
         Len(c.data.points) = 0 =>
           /\ c.out.raised = "ValueError"
           /\ c.out.at = 96
           /\ c.out.fig = None

\* The builder has been called on the record of an empty cloud.
C8_EmptyRecordBuilt ==
    /\ t_first # None
    /\ t_file.kind = "ply"
    /\ t_first.data.points = <<>>
    /\ t_first.data.colors = <<>>

(***************************************************************************)
(* C9.  For every point, each channel of its color string is the integer   *)
(* floor(c * 255) of the channel's value c in [0, 1]: an integer of 0..255 *)
(* (255 for c = 1, 127 for c = 0.5); the figure has one color string per   *)
(* point, in the order of the points.                                      *)
(***************************************************************************)
C9_ChannelsTruncated ==
    BuiltFigure =>
        /\ Len(fig.data.marker.color) = Len(data.points)
        /\ \A k \in 1..Len(data.colors) :
             /\ \A a \in 1..3 : InUnit(data.colors[k][a])
             /\ fig.data.marker.color[k] =
                  "rgb(" \o ToString(Floor255(data.colors[k][1])) \o ","
                         \o ToString(Floor255(data.colors[k][2])) \o ","
                         \o ToString(Floor255(data.colors[k][3])) \o ")"
             /\ data.colors[k] = <<R(1), Q(1, 2), R(0)>> =>
                  fig.data.marker.color[k] = "rgb(255,127,0)"

\* A figure has been built of two points whose colors (1, 0.5, 0) and
\* (0.999, 0.2, 0.5) round and truncate differently.
C9_MixedColorsBuilt ==
    /\ BuiltFigure
    /\ Uploaded
    /\ data.colors = << <<R(1), Q(1, 2), R(0)>>, <<Q(999, 1000), Q(1, 5), Q(1, 2)>> >>
    /\ fig.data.marker.color = <<"rgb(255,127,0)", "rgb(254,51,127)">>

(***************************************************************************)
(* C10.  In a run without an uploaded file the builder is called exactly   *)
(* once, on the sample record of 100 * 50 = 5000 points (colors =          *)
(* (position + 1) / 2 on each axis, no normals, no pcd) with point_size 5  *)
(* and splat_scale 1.0, so on a non-empty record; the loader is never      *)
(* called and no temporary file is created.                                *)
(***************************************************************************)
C10_SampleRun ==
    ~Uploaded =>
        /\ ~Has(calls, "load_ply_file")
        /\ disk = {}
        /\ tmp_filename = Unbound
        /\ Count(calls, "create_gaussian_splatting_visualization") <= 1
        /\ pc \in {"sample_chart", "footer", "done"} =>
             Count(calls, "create_gaussian_splatting_visualization") = 1
        /\ build # None =>
             /\ Len(data.points) = 5000
             /\ Len(data.points) = 100 * 50
             /\ Len(data.colors) = Len(data.points)
             /\ \A k \in 1..Len(data.points) : \A a \in 1..3 :
                  /\ Mul(data.colors[k][a], R(2)) = Add(data.points[k][a], R(1))
                  /\ ~Lt(data.points[k][a], R(-1))
                  /\ ~Lt(R(1), data.points[k][a])
             /\ data.normals = None
             /\ data.pcd = None
             /\ settings = [point_size |-> 5, splat_scale |-> R(1)]
             /\ build.raised = NoException
             /\ fig.data.marker.size = 5
             /\ Len(fig.data.x) = Len(data.points)

\* A run without an upload has rendered the sample and ended.
C10_SampleRendered ==
    /\ ~Uploaded
    /\ pc = "done"
    /\ Has(ui, "plotly_chart")
    /\ Len(data.points) = 5000

====
